---- MODULE Spec2Model ----
(***************************************************************************)
(* Session/worker orchestration of the MGVCL bill extractor.               *)
(*                                                                         *)
(* Modelled revision: src/server.js lines 438-1115 (the revision with the  *)
(* completion checker, the browser-available listener and the retrying     *)
(* processConsumer) together with BrowserManager and ExcelProcessor of     *)
(* src/src/browserManager.js.                                              *)
(* ExcelProcessor.readConsumerNumbers and the ApiProcessor of              *)
(* src/unnamed/part_002 are modelled beside it, each with its own          *)
(* specification, and so are the completion checker tick by tick, one call *)
(* of BrowserManager.submitAndGetResults, the captcha queue of MGVCLApp    *)
(* (src/public/index.html) and two batches sharing consumersInProgress.    *)
(*                                                                         *)
(* Time is abstract: a timer that the code arms may expire at any step; an *)
(* awaited external operation (page.goto, submitCaptcha, writeResults ...) *)
(* completes at any later step with any of the outcomes its code has.      *)
(***************************************************************************)
EXTENDS Integers, Sequences, FiniteSets, TLC

\* ------------------------------------------------------------------------
\* Bounds of the model
\* ------------------------------------------------------------------------
\* pool size handed to the BrowserManager constructor (5 in server.js)
maxBrowsers == 2
\* number of consumer numbers read from the uploaded sheet
NumItems == 2
\* number of captcha-response messages the viewer sends in one run
MaxAnswers == 2
\* number of releaseBrowser calls whose page reset is in flight at once
MaxPendingReleases == 1
\* number of failures of external operations (page, site, file system) in one run
MaxFaults == 1
\* number of times the site shows a captcha in one run
MaxChallenges == 1
\* finishProcessing calls counted in one run (the count stops there)
MaxFinalizations == 2
\* data rows of the sheet handed to readConsumerNumbers
MaxRows == 3
\* pool size handed to the ApiProcessor constructor (5 by default)
maxInstances == 2
\* getCaptchaForConsumer calls made in one run
MaxApiCalls == 3

\* ------------------------------------------------------------------------
\* Program constants
\* ------------------------------------------------------------------------
maxRetries == 3
PadWidth == 11
MinDigits == 6
MaxDigits == 15

Browsers == 1..maxBrowsers
Indices == 1..NumItems
NoBrowser == 0

\* A consumer number is a string of decimal digits: the sequence of its digits.
RECURSIVE Zeros(_)
Zeros(n) == IF n <= 0 THEN << >> ELSE << 0 >> \o Zeros(n - 1)

\* String.prototype.padStart(width, '0')
PadStart(s, width) == Zeros(width - Len(s)) \o s

\* processConsumer passing the number on as it is
FormattedConsumerNoUnpadded(s) == s

\* consumerNo.toString().padStart(11, '0') of processConsumer
FormattedConsumerNo(s) == PadStart(s, PadWidth)

\* A cell of the sheet is a string of characters: the decimal digits 0..9,
\* Dash for a character that is neither a digit nor white space, and Space.
Dash == 10
Space == 11
IsDigit(c) == c \in 0..9

\* String.prototype.replace(/\D/g, '')
NumericOnly(s) == SelectSeq(s, IsDigit)

RECURSIVE TrimStart(_)
TrimStart(s) == IF s # << >> /\ Head(s) = Space THEN TrimStart(Tail(s)) ELSE s

RECURSIVE TrimEnd(_)
TrimEnd(s) ==
    IF s # << >> /\ s[Len(s)] = Space THEN TrimEnd(SubSeq(s, 1, Len(s) - 1)) ELSE s

\* String.prototype.trim
Trim(s) == TrimEnd(TrimStart(s))

\* ExcelProcessor.isValidConsumerNumber
isValidConsumerNumber(s) ==
    LET numericOnly == NumericOnly(s)
    IN Len(numericOnly) >= MinDigits /\ Len(numericOnly) <= MaxDigits

\* ExcelProcessor.formatConsumerNumber
formatConsumerNumber(s) ==
    LET numericOnly == NumericOnly(s)
    IN IF Len(numericOnly) < PadWidth THEN PadStart(numericOnly, PadWidth) ELSE numericOnly

\* cells of the first column of the uploaded sheet: "9876543",
\* "14102000674" and "123"
SheetCells == { << 9, 8, 7, 6, 5, 4, 3 >>,
                << 1, 4, 1, 0, 2, 0, 0, 0, 6, 7, 4 >>,
                << 1, 2, 3 >> }

\* ExcelProcessor.readConsumerNumbers keeps the valid cells, untouched
RawIds == { s \in SheetCells : isValidConsumerNumber(s) }

RECURSIVE SeqsOfLen(_, _)
SeqsOfLen(S, n) ==
    IF n = 0 THEN { <<>> }
    ELSE { Append(q, x) : q \in SeqsOfLen(S, n - 1), x \in S }

\* the batches a sheet of NumItems valid rows can produce
Batches == SeqsOfLen(RawIds, NumItems)

\* cells of the first column of a sheet handed to readConsumerNumbers:
\* "123", "9876543", "14102000674", " 9876543 ", "98-76543",
\* "141020006741" and "1410200067412345"
UploadCells == SheetCells \cup
               { << Space, 9, 8, 7, 6, 5, 4, 3, Space >>,
                 << 9, 8, Dash, 7, 6, 5, 4, 3 >>,
                 << 1, 4, 1, 0, 2, 0, 0, 0, 6, 7, 4, 1 >>,
                 << 1, 4, 1, 0, 2, 0, 0, 0, 6, 7, 4, 1, 2, 3, 4, 5 >> }

\* the data rows (below the header row) of the sheets
Sheets == SeqsOfLen(UploadCells, MaxRows)

\* ------------------------------------------------------------------------
\* Sequence helpers
\* ------------------------------------------------------------------------
RECURSIVE CountIn(_, _)
CountIn(s, x) ==
    IF s = <<>> THEN 0
    ELSE (IF Head(s) = x THEN 1 ELSE 0) + CountIn(Tail(s), x)

RECURSIVE IndexOf(_, _)
\* Array.prototype.indexOf, 1-based; 0 stands for -1
IndexOf(s, x) ==
    IF s = <<>> THEN 0
    ELSE IF Head(s) = x THEN 1
    ELSE LET r == IndexOf(Tail(s), x) IN IF r = 0 THEN 0 ELSE r + 1

\* Array.prototype.splice(k, 1), k 1-based
SpliceOne(s, k) == [ j \in 1..(Len(s) - 1) |-> IF j < k THEN s[j] ELSE s[j + 1] ]

RECURSIVE SumOver(_, _)
SumOver(f, S) ==
    IF S = {} THEN 0
    ELSE LET x == CHOOSE y \in S : TRUE IN f[x] + SumOver(f, S \ {x})

VARIABLES
    bm,                   \* the BrowserManager object
    session,              \* activeSessions.get(sessionId)
    started,              \* processConsumerNumbers has run its synchronous part
    currentQueueIndex,    \* closure variable of processConsumerNumbers
    completedConsumers,   \* closure variable of processConsumerNumbers
    processingCompleted,  \* closure variable of processConsumerNumbers
    checkerActive,        \* the completionChecker interval is armed
    consumersInProgress,  \* module-level Set of server.js
    tasks,                \* one processConsumer call per queue index
    pendingReleases,      \* releaseBrowser calls awaiting page.goto, per browser
    handlers,             \* captcha-response handler invocations
    issued,               \* captcha-required events the viewer has received
    hist,                 \* observations of past steps, and what the environment
                          \* may still do (not program state)
    upload,               \* one call of ExcelProcessor.readConsumerNumbers and the
                          \* identifiers processConsumer makes of its result
    api,                  \* the ApiProcessor object and the calls made on it
    checker,              \* the completionChecker interval of one batch, tick by tick
    poll,                 \* one call of BrowserManager.submitAndGetResults
    viewer,               \* the MGVCLApp object of public/index.html
    pair                  \* two batches sharing consumersInProgress

\* the state of server.js and its BrowserManager
serverVars == << bm, session, started, currentQueueIndex, completedConsumers,
                 processingCompleted, checkerActive, consumersInProgress,
                 tasks, pendingReleases, handlers, issued, hist >>

vars == << bm, session, started, currentQueueIndex, completedConsumers,
           processingCompleted, checkerActive, consumersInProgress,
           tasks, pendingReleases, handlers, issued, hist, upload, api,
           checker, poll, viewer, pair >>

\* currentConsumer: null
NoConsumer == << -1 >>

\* ------------------------------------------------------------------------
\* BrowserManager (src/src/browserManager.js)
\* ------------------------------------------------------------------------
\* the record stored by initialize() for one browser
NewBrowserData == [ busy |-> FALSE, currentConsumer |-> NoConsumer, captchaRequired |-> FALSE ]

\* initialize() with the loop bound off by one (i <= maxBrowsers)
InitLoopIdsOffByOne(m) == 1..(m.maxBrowsers + 1)

\* the browser ids the loop of initialize() visits: browser_0 ..
\* browser_(maxBrowsers-1), numbered here from 1
InitLoopIds(m) == 1..m.maxBrowsers

RECURSIVE AscendingSeq(_)
\* the elements of a set of numbers in increasing order (the order of a for loop)
AscendingSeq(S) ==
    IF S = {} THEN << >>
    ELSE LET mn == CHOOSE x \in S : \A y \in S : x <= y
         IN << mn >> \o AscendingSeq(S \ {mn})

\* BrowserManager.initialize
Initialize(m) ==
    IF m.initialized THEN m
    ELSE LET new == { b \in InitLoopIds(m) : b \notin DOMAIN m.browsers }
         IN [ m EXCEPT !.browsers = [ b \in (DOMAIN m.browsers) \cup new |->
                                          IF b \in new THEN NewBrowserData ELSE m.browsers[b] ],
                       !.availableBrowsers = @ \o AscendingSeq(new),
                       !.initialized = TRUE ]

\* the function pushed on browserQueue for the request of task i, and the
\* resolve function of that request's promise: two different functions
QueueWrapper(i) == << "wrapper", i >>
QueueResolve(i) == << "resolve", i >>

\* BrowserManager.getAvailableBrowser for the request of task i.
\* browserId = NoBrowser with queued = TRUE: the promise is pending.
GetAvailableBrowser(m0, i) ==
    LET m == Initialize(m0) IN
    IF Len(m.availableBrowsers) = 0
    THEN [ bm |-> [ m EXCEPT !.browserQueue = Append(@, QueueWrapper(i)) ],
           browserId |-> NoBrowser, queued |-> TRUE ]
    ELSE LET b == Head(m.availableBrowsers) IN
         [ bm |-> [ m EXCEPT !.availableBrowsers = Tail(@),
                             !.busyBrowsers = @ \cup {b},
                             !.browsers[b].busy = TRUE ],
           browserId |-> b, queued |-> FALSE ]

\* BrowserManager.lockForCaptcha
LockForCaptcha(m, b, c) ==
    [ m EXCEPT !.browsers[b].captchaRequired = TRUE,
               !.browsers[b].currentConsumer = c,
               !.captchaLocks = @ \cup {b} ]

\* BrowserManager.releaseBrowser after page.goto resolved, up to and
\* including the state reset of lines 126-130 (the emit follows)
ReleaseReset(m, b) ==
    [ m EXCEPT !.browsers[b].busy = FALSE,
               !.browsers[b].currentConsumer = NoConsumer,
               !.browsers[b].captchaRequired = FALSE,
               !.busyBrowsers = @ \ {b},
               !.captchaLocks = @ \ {b} ]

\* BrowserManager.releaseBrowser, lines 136-145: hand the browser to the
\* oldest queued request, or put it on the available list.
\* waiter is the task whose request was resolved (0: none).
ReleaseHandOff(m, b) ==
    IF Len(m.browserQueue) > 0
    THEN [ bm |-> [ m EXCEPT !.browserQueue = Tail(@),
                             !.browsers[b].busy = TRUE,
                             !.busyBrowsers = @ \cup {b} ],
           waiter |-> Head(m.browserQueue)[2] ]
    ELSE [ bm |-> [ m EXCEPT !.availableBrowsers = Append(@, b) ],
           waiter |-> 0 ]

\* releaseBrowser whose catch block only logs the error
ReleaseCatchLogOnly(m, b) == m

\* BrowserManager.releaseBrowser, catch block (page.goto rejected)
ReleaseCatch(m, b) ==
    [ m EXCEPT !.browsers[b].busy = FALSE,
               !.busyBrowsers = @ \ {b},
               !.availableBrowsers = Append(@, b) ]

\* ------------------------------------------------------------------------
\* server.js: one processConsumer call per claimed queue index
\* ------------------------------------------------------------------------
\* pc of a task:
\*   "unclaimed"  the cursor has not reached the index
\*   "dropped"    the listener took the index and found the number in progress
\*   "queued"     awaiting the promise of getAvailableBrowser
\*   "work"       navigate / select / enter / isCaptchaRequired in flight
\*   "captchaImage" lockForCaptcha done, getCaptchaImage in flight
\*   "captcha"    in the while (session.waitingForCaptcha) loop
\*   "submit"     submitAndGetResults in flight
\*   "wait5s"     in one of the two 5 second waits of the retry loop
\*   "done"       handleConsumerCompletion has run for the call
NewTask == [ pc |-> "unclaimed", browserId |-> NoBrowser, retries |-> 0, timerFired |-> FALSE ]

queue == session.consumerNumbers

\* top of the while loop of processConsumer for task i: the call of
\* getAvailableBrowser, which runs synchronously up to its promise.
\* w is a record with the fields bm and tasks (and others, kept).
LoopTop(w, i) ==
    LET r == GetAvailableBrowser(w.bm, i) IN
    [ w EXCEPT !.bm = r.bm,
               !.tasks[i].pc = IF r.queued THEN "queued" ELSE "work",
               !.tasks[i].browserId = IF r.queued THEN w.tasks[i].browserId ELSE r.browserId,
               !.tasks[i].timerFired = FALSE ]

\* the 'browser-available' listener of processConsumerNumbers
BrowserAvailableListener(w) ==
    LET index == w.currentQueueIndex + 1    \* 1-based position of queue[index]
        \* currentQueueIndex++ ; every value >= queue.length behaves alike,
        \* so the counter is kept at queue.length once it is there
        w1 == [ w EXCEPT !.currentQueueIndex =
                             IF @ < Len(w.queue) THEN @ + 1 ELSE @ ]
    IN IF w.currentQueueIndex < Len(w.queue)
       THEN IF w.queue[index] \notin w.consumersInProgress
            THEN LoopTop([ w1 EXCEPT !.consumersInProgress = @ \cup { w.queue[index] } ], index)
            ELSE [ w1 EXCEPT !.tasks[index].pc = "dropped" ]
       ELSE w1

\* the loop "Start initial set of worker processes", iterations k..n-1
RECURSIVE InitialWorkers(_, _, _)
InitialWorkers(w, k, n) ==
    IF k >= n THEN w
    ELSE LET index == w.currentQueueIndex + 1
             w1 == [ w EXCEPT !.currentQueueIndex = @ + 1 ]
         IN IF w.currentQueueIndex < Len(w.queue)
            THEN InitialWorkers(
                     LoopTop([ w1 EXCEPT !.consumersInProgress = @ \cup { w.queue[index] } ], index),
                     k + 1, n)
            ELSE InitialWorkers(w1, k + 1, n)

Min(a, b) == IF a < b THEN a ELSE b

\* the program state the listener and the worker starter read and write
World == [ bm |-> bm, tasks |-> tasks, currentQueueIndex |-> currentQueueIndex,
           consumersInProgress |-> consumersInProgress, queue |-> queue ]

SetWorld(w) ==
    /\ bm' = w.bm
    /\ tasks' = w.tasks
    /\ currentQueueIndex' = w.currentQueueIndex
    /\ consumersInProgress' = w.consumersInProgress

\* ------------------------------------------------------------------------
\* ExcelProcessor.readConsumerNumbers and what processConsumer enters
\* ------------------------------------------------------------------------
\* the upload route is about to call readConsumerNumbers on a sheet
NewUpload(data) == [ data |-> data, row |-> 0, consumerNumbers |-> << >>,
                     returned |-> FALSE, entered |-> << >> ]

\* one iteration of the loop over the data rows
ReadRow ==
    /\ ~upload.returned
    /\ upload.row < Len(upload.data)
    /\ LET consumerNo == upload.data[upload.row + 1]
           cleanConsumerNo == Trim(consumerNo)
       IN upload' = [ upload EXCEPT
              !.row = @ + 1,
              !.consumerNumbers =
                  IF cleanConsumerNo # << >> /\ isValidConsumerNumber(cleanConsumerNo)
                  THEN Append(@, cleanConsumerNo)
                  ELSE @ ]
    /\ UNCHANGED serverVars
    /\ UNCHANGED << api, checker, poll, viewer, pair >>

\* the loop is over: the numbers are returned and become the batch
ReadReturn ==
    /\ ~upload.returned
    /\ upload.row = Len(upload.data)
    /\ upload' = [ upload EXCEPT !.returned = TRUE ]
    /\ UNCHANGED serverVars
    /\ UNCHANGED << api, checker, poll, viewer, pair >>

\* processConsumer formats the next number of the batch and hands it to
\* enterConsumerNumber
EnterConsumerNumber ==
    /\ upload.returned
    /\ Len(upload.entered) < Len(upload.consumerNumbers)
    /\ upload' = [ upload EXCEPT !.entered =
                      Append(@, FormattedConsumerNo(upload.consumerNumbers[Len(@) + 1])) ]
    /\ UNCHANGED serverVars
    /\ UNCHANGED << api, checker, poll, viewer, pair >>

\* ------------------------------------------------------------------------
\* ApiProcessor (src/unnamed/part_002), the HTTP-API session variant
\* ------------------------------------------------------------------------
ApiIds == 1..maxInstances
ApiCalls == 1..MaxApiCalls

\* the fields of an ApiInstance that the processor reads and writes
NewApiInstance == [ busy |-> FALSE, captchaRequired |-> FALSE, currentConsumer |-> NoConsumer ]

\* a getCaptchaForConsumer call that has not been made yet
NewApiCall == [ pc |-> "idle", instanceId |-> NoBrowser, consumerNo |-> NoConsumer,
                timerFired |-> FALSE ]

\* the object after its constructor, with the calls made on it:
\*   captchaRequests[id]  "none": no entry; "fresh": an entry younger than
\*                        5 minutes; "old": an entry older than 5 minutes
\*   calls[c]             a getCaptchaForConsumer call: "idle", "queued"
\*                        (awaiting getAvailableInstance), "image"
\*                        (getCaptchaImage in flight), "returned", "failed"
\*   submits[id]          submitCaptcha of submitCaptchaAndGetDetails in flight
\*   resets[id]           releaseInstance calls awaiting instance.reset()
\*   obsolete             instances whose challenge expired unanswered and was
\*                        cleaned up, and that have not been released since
ApiConstructed ==
    [ instances |-> [ id \in ApiIds |-> NewApiInstance ],
      availableInstances |-> AscendingSeq(ApiIds),
      busyInstances |-> {},
      initialized |-> FALSE,
      instanceQueue |-> << >>,
      captchaRequests |-> [ id \in ApiIds |-> "none" ],
      calls |-> [ c \in ApiCalls |-> NewApiCall ],
      submits |-> [ id \in ApiIds |-> FALSE ],
      resets |-> [ id \in ApiIds |-> 0 ],
      obsolete |-> {} ]

ApiUnchanged == UNCHANGED serverVars /\ UNCHANGED << upload, checker, poll, viewer, pair >>

\* ApiProcessor.initialize resolved with at least one session cookie: the
\* cleanup interval is armed
ApiInitialize ==
    /\ ~api.initialized
    /\ api' = [ api EXCEPT !.initialized = TRUE ]
    /\ ApiUnchanged

\* ApiProcessor.lockForCaptcha
ApiLockForCaptcha(a, id, consumerNo) ==
    [ a EXCEPT !.instances[id].captchaRequired = TRUE,
               !.instances[id].currentConsumer = consumerNo,
               !.captchaRequests[id] = "fresh" ]

\* ApiProcessor.unlockFromCaptcha
ApiUnlockFromCaptcha(a, id) ==
    [ a EXCEPT !.instances[id].captchaRequired = FALSE,
               !.captchaRequests[id] = "none" ]

\* a call of releaseInstance(id): it runs up to its await of instance.reset()
ApiCanRelease == SumOver(api.resets, ApiIds) < MaxPendingReleases
ApiReleaseCalled(a, id) == [ a EXCEPT !.resets[id] = @ + 1 ]

\* getCaptchaForConsumer(consumerNo), call c: getAvailableInstance runs up
\* to its promise, then getCaptchaImage is sent
GetCaptchaForConsumer(c, consumerNo) ==
    /\ api.initialized
    /\ api.calls[c].pc = "idle"
    /\ \A d \in 1..(c - 1) : api.calls[d].pc # "idle"
    /\ IF Len(api.availableInstances) = 0
       THEN api' = [ api EXCEPT !.instanceQueue = Append(@, QueueWrapper(c)),
                                !.calls[c].pc = "queued",
                                !.calls[c].consumerNo = consumerNo ]
       ELSE LET id == Head(api.availableInstances) IN
            api' = [ api EXCEPT !.availableInstances = Tail(@),
                                !.busyInstances = @ \cup {id},
                                !.instances[id].busy = TRUE,
                                !.calls[c].pc = "image",
                                !.calls[c].instanceId = id,
                                !.calls[c].consumerNo = consumerNo ]
    /\ ApiUnchanged

\* the 2 minute timer of getAvailableInstance fires for the queued call c
ApiAcquireTimeout(c) ==
    /\ api.calls[c].pc = "queued"
    /\ ~api.calls[c].timerFired
    /\ LET queueIndex == IndexOf(api.instanceQueue, QueueResolve(c)) IN
       IF queueIndex > 0
       THEN \* resolve(null): getCaptchaForConsumer throws
            api' = [ api EXCEPT !.instanceQueue = SpliceOne(@, queueIndex),
                                !.calls[c].pc = "failed",
                                !.calls[c].timerFired = TRUE ]
       ELSE api' = [ api EXCEPT !.calls[c].timerFired = TRUE ]
    /\ ApiUnchanged

\* getCaptchaImage resolved: the instance is locked and the request id is
\* returned to the caller
ApiCaptchaImageOk(c) ==
    /\ api.calls[c].pc = "image"
    /\ api' = [ ApiLockForCaptcha(api, api.calls[c].instanceId, api.calls[c].consumerNo)
                   EXCEPT !.calls[c].pc = "returned" ]
    /\ ApiUnchanged

\* getCaptchaImage rejected: catch of getCaptchaForConsumer
ApiCaptchaImageFail(c) ==
    /\ api.calls[c].pc = "image"
    /\ ApiCanRelease
    /\ api' = [ ApiReleaseCalled(api, api.calls[c].instanceId)
                   EXCEPT !.calls[c].pc = "failed" ]
    /\ ApiUnchanged

\* submitCaptchaAndGetDetails(id, text) up to the request of submitCaptcha;
\* when no captcha request is active it throws before its try block
SubmitCaptchaAndGetDetails(id) ==
    /\ ~api.submits[id]
    /\ IF ~api.instances[id].captchaRequired \/ api.instances[id].currentConsumer = NoConsumer
       THEN api' = api
       ELSE api' = [ api EXCEPT !.submits[id] = TRUE ]
    /\ ApiUnchanged

\* submitCaptcha got v_status 'Y': unlock, then the finally block
ApiSubmitOk(id) ==
    /\ api.submits[id]
    /\ ApiCanRelease
    /\ api' = [ ApiReleaseCalled(ApiUnlockFromCaptcha(api, id), id)
                   EXCEPT !.submits[id] = FALSE ]
    /\ ApiUnchanged

\* submitCaptcha threw: the finally block
ApiSubmitFail(id) ==
    /\ api.submits[id]
    /\ ApiCanRelease
    /\ api' = [ ApiReleaseCalled(api, id) EXCEPT !.submits[id] = FALSE ]
    /\ ApiUnchanged

\* releaseInstance after instance.reset() resolved (reset catches its own
\* errors, so the catch block of releaseInstance is not entered)
ReleaseInstance(id) ==
    /\ api.resets[id] > 0
    /\ LET a == [ api EXCEPT !.instances[id] = NewApiInstance,
                             !.busyInstances = @ \ {id},
                             !.resets[id] = @ - 1,
                             !.obsolete = @ \ {id} ]
       IN IF Len(a.instanceQueue) > 0
          THEN LET c == Head(a.instanceQueue)[2] IN
               api' = [ a EXCEPT !.instanceQueue = Tail(@),
                                 !.instances[id].busy = TRUE,
                                 !.busyInstances = @ \cup {id},
                                 !.calls[c].pc = "image",
                                 !.calls[c].instanceId = id ]
          ELSE api' = [ a EXCEPT !.availableInstances = Append(@, id) ]
    /\ ApiUnchanged

\* five minutes pass after the lock entry of the instance was written
LockExpire(id) ==
    /\ api.captchaRequests[id] = "fresh"
    /\ api' = [ api EXCEPT !.captchaRequests[id] = "old" ]
    /\ ApiUnchanged

\* the entries checkCaptchaLocks finds stale
StaleEntries(a) ==
    { id \in ApiIds : /\ a.captchaRequests[id] # "none"
                      /\ \/ ~a.instances[id].captchaRequired
                         \/ a.captchaRequests[id] = "old" }

\* ApiProcessor.checkCaptchaLocks
CheckCaptchaLocks(a) ==
    [ a EXCEPT !.captchaRequests = [ id \in ApiIds |->
                                       IF id \in StaleEntries(a) THEN "none" ELSE @[id] ],
               !.instances = [ id \in ApiIds |->
                                 IF id \in StaleEntries(a)
                                 THEN [ @[id] EXCEPT !.captchaRequired = FALSE ]
                                 ELSE @[id] ],
               !.obsolete = @ \cup { id \in StaleEntries(a) :
                                        /\ a.captchaRequests[id] = "old"
                                        /\ a.instances[id].captchaRequired
                                        /\ id \in a.busyInstances } ]

\* the callback of the cleanup interval
CleanupInterval ==
    /\ api.initialized
    /\ api' = CheckCaptchaLocks(api)
    /\ ApiUnchanged

\* the rows of the results file: none has been written
NoExport == [ written |-> FALSE, rows |-> << >> ]

\* ExcelProcessor.writeResults: one row per result, in order, an 'Error' row
\* for a result with an error and a 'Success' row otherwise
WriteResults(results) ==
    [ written |-> TRUE,
      rows |-> [ j \in 1..Len(results) |->
                   [ consumerNo |-> results[j].consumerNo,
                     status |-> IF results[j].error THEN "Error" ELSE "Success" ] ] ]

\* no sheet has been uploaded
NoUpload == [ data |-> << >>, row |-> 0, consumerNumbers |-> << >>,
              returned |-> FALSE, entered |-> << >> ]

\* ------------------------------------------------------------------------
\* The completionChecker of processConsumerNumbers on its own: a batch of
\* `total` numbers whose items complete one by one while the interval
\* callback runs every TickPeriod seconds.
\* ------------------------------------------------------------------------
\* setInterval(..., 5000), in seconds
TickPeriod == 5

\* the largest batch of the checker's runs
MaxTotal == 5

\* the checker's runs end after this many seconds
MaxElapsed == 910

\* no batch is being watched
NoChecker == [ total |-> 0, completedConsumers |-> 0, elapsedTime |-> 0,
               lastCompletion |-> 0, processingCompleted |-> FALSE,
               completionReason |-> "" ]

\* the closure variables of processConsumerNumbers for a queue of n numbers
NewChecker(n) == [ NoChecker EXCEPT !.total = n ]

\* ------------------------------------------------------------------------
\* BrowserManager.submitAndGetResults, one call.
\* ------------------------------------------------------------------------
NoPageState == [ inputConsNumberVisible |-> FALSE, detailsVisible |-> FALSE,
                 consumerNameValue |-> FALSE, modal |-> "none" ]

\* submitAndGetResults has not been called
NoPoll == [ pc |-> "idle", retries |-> 0, polls |-> 0, pageState |-> NoPageState,
            error |-> "" ]

\* const maxRetries = 5 of submitAndGetResults
maxPollRetries == 5

\* a call's runs end after this many evaluations of the page
MaxPolls == 7

\* the call has found its browser and enters the loop
NewPoll == [ NoPoll EXCEPT !.pc = "polling" ]

\* what the site can show at one evaluation of the page
PageStates ==
    [ inputConsNumberVisible : BOOLEAN, detailsVisible : BOOLEAN,
      consumerNameValue : BOOLEAN,
      modal : { "none", "invalidConsumer", "invalidCaptcha" } ]

PollOthers ==
    UNCHANGED serverVars /\ UNCHANGED << upload, api, checker, viewer, pair >>

\* one pass of the while loop, the site showing pageState; the pass that
\* brings retries to its maximum leaves the loop and throws
PollPass(pageState) ==
    /\ poll.pc = "polling"
    /\ poll.retries < maxPollRetries
    /\ poll.polls < MaxPolls
    /\ LET p == [ poll EXCEPT !.polls = @ + 1, !.pageState = pageState ]
       IN poll' =
            IF pageState.inputConsNumberVisible /\ pageState.modal = "invalidConsumer"
            THEN [ p EXCEPT !.pc = "thrown", !.error = "Invalid consumer number" ]
            ELSE IF pageState.inputConsNumberVisible /\ pageState.modal = "invalidCaptcha"
            THEN [ p EXCEPT !.pc = "thrown", !.error = "Invalid captcha" ]
            ELSE IF pageState.detailsVisible /\ pageState.consumerNameValue
            THEN [ p EXCEPT !.pc = "returned" ]
            ELSE IF ~pageState.inputConsNumberVisible /\ ~pageState.detailsVisible
            THEN p
            ELSE IF poll.retries + 1 < maxPollRetries
            THEN [ p EXCEPT !.retries = @ + 1 ]
            ELSE [ p EXCEPT !.retries = @ + 1, !.pc = "thrown",
                            !.error = "Bill details not visible" ]
    /\ PollOthers

\* ------------------------------------------------------------------------
\* MGVCLApp of public/index.html: the captcha queue of the viewer.
\* ------------------------------------------------------------------------
\* the captcha section is hidden
Hidden == [ browserId |-> 0, consumerNo |-> 0 ]

\* the viewer's runs end after this many events
MaxViewerEvents == 5

\* the constructor; firstIssued, events and last observe the run: the event
\* count at which each browser's entry was added, the number of events so
\* far, and the last event with the place of the entry it removed
NoViewer == [ captchaQueue |-> << >>, captchaTimeouts |-> {}, shown |-> Hidden,
              reloadRequested |-> Hidden,
              firstIssued |-> [ b \in 1..maxBrowsers |-> 0 ], events |-> 0,
              last |-> [ kind |-> "none", browserId |-> 0, index |-> 0 ] ]

ViewerOthers ==
    UNCHANGED serverVars /\ UNCHANGED << upload, api, checker, poll, pair >>

RECURSIVE FindIndex(_, _)
\* captchaQueue.findIndex(item => item.browserId === browserId), 1-based;
\* 0 stands for -1
FindIndex(q, browserId) ==
    IF q = << >> THEN 0
    ELSE IF Head(q).browserId = browserId THEN 1
    ELSE LET r == FindIndex(Tail(q), browserId) IN IF r = 0 THEN 0 ELSE r + 1

\* updateCaptchaDisplay: what the captcha section shows for queue q
UpdateCaptchaDisplay(q) == IF q # << >> THEN Head(q) ELSE Hidden

\* the queue with every captcha-required pushed (handleCaptchaRequired of
\* public/app.js)
AlwaysAdd(q, data) == Append(q, data)

\* handleCaptchaRequired: update or add to queue
UpdateOrAdd(q, data) ==
    LET existingIndex == FindIndex(q, data.browserId)
    IN IF existingIndex > 0 THEN [ q EXCEPT ![existingIndex] = data ]
       ELSE Append(q, data)

\* removeCaptchaFromQueue(browserId)
RemoveCaptchaFromQueue(v, browserId) ==
    LET index == FindIndex(v.captchaQueue, browserId)
        q == IF index > 0 THEN SpliceOne(v.captchaQueue, index) ELSE v.captchaQueue
    IN [ v EXCEPT !.captchaQueue = q,
                  !.shown = IF index > 0 THEN UpdateCaptchaDisplay(q) ELSE @,
                  !.captchaTimeouts = @ \ { browserId },
                  !.firstIssued[browserId] = IF index > 0 THEN 0 ELSE @ ]

\* socket.on('captcha-required'): handleCaptchaRequired(data); match tells
\* whether data.sessionId is the viewer's currentSessionId
HandleCaptchaRequired(b, c, match) ==
    /\ viewer.events < MaxViewerEvents
    /\ IF ~match
       THEN viewer' = [ viewer EXCEPT
                !.events = @ + 1,
                !.last = [ kind |-> "ignored", browserId |-> b, index |-> 0 ] ]
       ELSE LET data == [ browserId |-> b, consumerNo |-> c ]
                q == UpdateOrAdd(viewer.captchaQueue, data)
            IN viewer' = [ viewer EXCEPT
                   !.captchaTimeouts = @ \cup { b },
                   !.captchaQueue = q,
                   !.shown = UpdateCaptchaDisplay(q),
                   !.firstIssued[b] =
                       IF FindIndex(viewer.captchaQueue, b) > 0 THEN @
                       ELSE viewer.events + 1,
                   !.events = @ + 1,
                   !.last = [ kind |-> "required", browserId |-> b, index |-> 0 ] ]
    /\ ViewerOthers

\* socket.on('captcha-submitted'): handleCaptchaSubmitted(data)
HandleCaptchaSubmitted(success, b) ==
    /\ viewer.events < MaxViewerEvents
    /\ IF success
       THEN LET v == RemoveCaptchaFromQueue(viewer, b)
            IN viewer' = [ v EXCEPT
                   !.shown = IF Len(v.captchaQueue) > 0
                             THEN UpdateCaptchaDisplay(v.captchaQueue)
                             ELSE Hidden,
                   !.events = @ + 1,
                   !.last = [ kind |-> "submitted", browserId |-> b,
                              index |-> FindIndex(viewer.captchaQueue, b) ] ]
       ELSE viewer' = [ viewer EXCEPT
                !.events = @ + 1,
                !.last = [ kind |-> "rejected", browserId |-> b, index |-> 0 ] ]
    /\ ViewerOthers

\* the five-minute timeout set by handleCaptchaRequired for browser b fires
CaptchaTimerFires(b) ==
    /\ viewer.events < MaxViewerEvents
    /\ b \in viewer.captchaTimeouts
    /\ viewer' = [ RemoveCaptchaFromQueue(viewer, b) EXCEPT
           !.events = @ + 1,
           !.last = [ kind |-> "timeout", browserId |-> b,
                      index |-> FindIndex(viewer.captchaQueue, b) ] ]
    /\ ViewerOthers

\* socket.on('captcha-error'): handleCaptchaError asks a reload of the
\* presented captcha
HandleCaptchaError ==
    /\ viewer.events < MaxViewerEvents
    /\ viewer' = [ viewer EXCEPT
           !.reloadRequested = IF viewer.captchaQueue # << >>
                               THEN Head(viewer.captchaQueue) ELSE @,
           !.events = @ + 1,
           !.last = [ kind |-> "error", browserId |-> 0, index |-> 0 ] ]
    /\ ViewerOthers

\* ------------------------------------------------------------------------
\* Two uploads processed at the same time by one server.
\* ------------------------------------------------------------------------
PairSessions == 1..2

\* a session that was not uploaded
NoBatch == [ queue |-> << >>, started |-> FALSE, currentQueueIndex |-> 0,
             items |-> << >>, results |-> << >>, completedConsumers |-> 0 ]

\* no upload yet: the module-level set is empty, no releaseBrowser call is
\* awaiting its page.goto, no 'browser-available' listener is registered
NoPair == [ consumersInProgress |-> {}, emits |-> 0, listeners |-> << >>,
            batch |-> [ s \in PairSessions |-> NoBatch ] ]

\* each batch is one number longer than the pool, so that the listener hands
\* out its last index
PairItems == maxBrowsers + 1

\* the upload route: the session of a sheet whose numbers are q
NewBatch(q) == [ NoBatch EXCEPT !.queue = q,
                                !.items = [ i \in 1..Len(q) |-> "unclaimed" ] ]

\* sheets of PairItems different numbers
PairQueues ==
    { q \in SeqsOfLen(1..PairItems, PairItems) :
          \A i, j \in 1..PairItems : i # j => q[i] # q[j] }

PairOthers ==
    UNCHANGED serverVars /\ UNCHANGED << upload, api, checker, poll, viewer >>

\* the 'browser-available' listener of session s, run on p
PairListener(p, s) ==
    LET b == p.batch[s]
        index == b.currentQueueIndex
        p1 == [ p EXCEPT !.batch[s].currentQueueIndex = @ + 1 ]
    IN IF index < Len(b.queue)
       THEN LET nextConsumer == b.queue[index + 1]
            IN IF nextConsumer \notin p.consumersInProgress
               THEN [ p1 EXCEPT !.consumersInProgress = @ \cup { nextConsumer },
                                !.batch[s].items[index + 1] = "running" ]
               ELSE [ p1 EXCEPT !.batch[s].items[index + 1] = "dropped" ]
       ELSE p1

RECURSIVE PairEmit(_, _)
\* emit('browser-available'): the listeners run in the order of registration
PairEmit(p, ls) ==
    IF ls = << >> THEN p ELSE PairEmit(PairListener(p, Head(ls)), Tail(ls))

\* processConsumerNumbers of session s after initialize: the listener is
\* registered and the first Math.min(maxBrowsers, queue.length) workers start
PairStart(s) ==
    /\ pair.batch[s].queue # << >>
    /\ ~pair.batch[s].started
    /\ LET b == pair.batch[s]
           k == Min(maxBrowsers, Len(b.queue))
       IN pair' = [ pair EXCEPT
              !.listeners = Append(@, s),
              !.consumersInProgress = @ \cup { b.queue[i] : i \in 1..k },
              !.batch[s].started = TRUE,
              !.batch[s].currentQueueIndex = k,
              !.batch[s].items = [ i \in 1..Len(b.queue) |->
                                     IF i <= k THEN "running" ELSE "unclaimed" ] ]
    /\ PairOthers

\* the processConsumer call of item i of session s settles, having passed
\* its browser to releaseBrowser: handleConsumerCompletion
PairSettle(s, i) ==
    /\ pair.batch[s].items[i] = "running"
    /\ pair.emits < MaxPendingReleases
    /\ pair' = [ pair EXCEPT
           !.batch[s].results = Append(@, pair.batch[s].queue[i]),
           !.batch[s].completedConsumers = @ + 1,
           !.batch[s].items[i] = "done",
           !.consumersInProgress = @ \ { pair.batch[s].queue[i] },
           !.emits = @ + 1 ]
    /\ PairOthers

\* a releaseBrowser call has reset its page and emits 'browser-available'
PairBrowserAvailable ==
    /\ pair.emits > 0
    /\ pair' = PairEmit([ pair EXCEPT !.emits = @ - 1 ], pair.listeners)
    /\ PairOthers

\* none of the four is in use
SideIdle ==
    /\ checker = NoChecker
    /\ poll = NoPoll
    /\ viewer = NoViewer
    /\ pair = NoPair

\* ------------------------------------------------------------------------
\* Initial state: the upload route has created the session and is about to
\* call processConsumerNumbers; the BrowserManager is constructed.
\* ------------------------------------------------------------------------
InitServer(faultBudget, challengeBudget, pool, batches) ==
    /\ bm = [ maxBrowsers |-> pool,
              browsers |-> << >>,
              availableBrowsers |-> << >>,
              busyBrowsers |-> {},
              initialized |-> FALSE,
              captchaLocks |-> {},
              browserQueue |-> << >> ]
    /\ session \in { [ consumerNumbers |-> q, results |-> << >>,
                       status |-> "processing", waitingForCaptcha |-> FALSE,
                       resultsPath |-> FALSE ] :
                     q \in batches }
    /\ started = FALSE
    /\ currentQueueIndex = 0
    /\ completedConsumers = 0
    /\ processingCompleted = FALSE
    /\ checkerActive = FALSE
    /\ consumersInProgress = {}
    /\ tasks = [ i \in Indices |-> NewTask ]
    /\ pendingReleases = << >>
    /\ handlers = [ k \in 1..MaxAnswers |->
                      [ pc |-> "unused", browserId |-> NoBrowser,
                        consumerNo |-> NoConsumer ] ]
    /\ issued = {}
    /\ hist = [ failedReset |-> NoBrowser, accepted |-> << >>, answered |-> {},
                faults |-> 0, challenges |-> 0, finalizations |-> 0,
                export |-> NoExport, lastConnect |-> "none",
                sinceIssue |-> {}, sinceReissue |-> {},
                faultBudget |-> faultBudget, challengeBudget |-> challengeBudget ]

\* the server with a pool of maxBrowsers browsers and any batch of NumItems
\* numbers; no sheet is being read and the ApiProcessor is not in use
InitWith(faultBudget, challengeBudget) ==
    /\ InitServer(faultBudget, challengeBudget, maxBrowsers, Batches)
    /\ upload = NoUpload
    /\ api = ApiConstructed
    /\ SideIdle

\* a run in which the environment fails at most MaxFaults times and the site
\* asks at most MaxChallenges captchas
Init == InitWith(MaxFaults, MaxChallenges)

\* a sheet is uploaded; the server is idle
InitUpload ==
    /\ InitServer(0, 0, maxBrowsers, { << >> })
    /\ upload \in { NewUpload(d) : d \in Sheets }
    /\ api = ApiConstructed
    /\ SideIdle

\* the ApiProcessor has been constructed; the browser variant is idle
InitApi ==
    /\ InitServer(0, 0, maxBrowsers, { << >> })
    /\ upload = NoUpload
    /\ api = ApiConstructed
    /\ SideIdle

\* a run without failures in which the site asks a captcha of several items
InitTwoChallenges == InitWith(0, MaxChallenges + 1)

\* a run without captchas in which the site can fail on every attempt of an item
InitRetries == InitWith(maxRetries, 0)

\* processConsumerNumbers: initialize, arm the completion checker, register
\* the listener and start the initial workers
Start ==
    /\ ~started
    /\ LET m == Initialize(bm)
           w == InitialWorkers([ World EXCEPT !.bm = m ], 0,
                               Min(m.maxBrowsers, Len(queue)))
       IN /\ SetWorld(w)
          /\ pendingReleases' = [ b \in DOMAIN m.browsers |-> 0 ]
          /\ hist' = [ hist EXCEPT !.accepted = [ b \in DOMAIN m.browsers |-> 0 ] ]
    /\ started' = TRUE
    /\ checkerActive' = TRUE
    /\ UNCHANGED << session, completedConsumers, processingCompleted, handlers, issued >>
    /\ UNCHANGED << upload, api, checker, poll, viewer, pair >>

\* an external operation fails: counted against MaxFaults
CanFail == hist.faults < hist.faultBudget
Faulted(h) == [ h EXCEPT !.faults = @ + 1 ]

\* processConsumerNumbers when browserManager.initialize() rejects after k
\* browsers were launched: the catch block sets the status and writes the
\* results recorded so far; writeOk: writeResults did not throw. The
\* completion checker is not armed and no worker is started.
StartFail(k, writeOk) ==
    /\ ~started
    /\ CanFail
    /\ ~bm.initialized
    /\ k < bm.maxBrowsers
    /\ bm' = [ bm EXCEPT !.browsers = [ b \in 1..k |-> NewBrowserData ],
                         !.availableBrowsers = AscendingSeq(1..k) ]
    /\ started' = TRUE
    /\ session' = [ session EXCEPT !.status = "error" ]
    /\ hist' = [ Faulted(hist) EXCEPT
                    !.export = IF writeOk THEN WriteResults(session.results) ELSE @ ]
    /\ UNCHANGED << currentQueueIndex, completedConsumers, processingCompleted,
                    checkerActive, consumersInProgress, tasks, pendingReleases,
                    handlers, issued >>
    /\ UNCHANGED << upload, api, checker, poll, viewer, pair >>

\* io.on('connection'): the condition under which the completion events
\* are sent again to the socket that connected
ReplaysCompletion(s) == s.status = "completed" /\ s.resultsPath

\* a viewer connects. The handler schedules the two completion events for
\* the new socket, or schedules nothing; what it did is recorded:
\*   "early"     the batch was still processing
\*   "replayed"  the batch was over and the events were scheduled
\*   "silent"    the batch was over and nothing was scheduled
Connect ==
    /\ hist' = [ hist EXCEPT !.lastConnect =
                    IF ReplaysCompletion(session) THEN "replayed"
                    ELSE IF session.status = "processing" THEN "early"
                    ELSE "silent" ]
    /\ UNCHANGED << bm, session, started, currentQueueIndex, completedConsumers,
                    processingCompleted, checkerActive, consumersInProgress,
                    tasks, pendingReleases, handlers, issued >>
    /\ UNCHANGED << upload, api, checker, poll, viewer, pair >>

PendingTotal == SumOver(pendingReleases, DOMAIN pendingReleases)

\* a call of browserManager.releaseBrowser(b): the function runs up to its
\* await of page.goto and completes later (ReleaseFinish)
CanRelease == PendingTotal < MaxPendingReleases

\* a releaseBrowser call that was left out
ReleaseNotCalled(b) == pendingReleases

ReleaseCalled(b) == [ pendingReleases EXCEPT ![b] = @ + 1 ]

\* handleConsumerCompletion without completedConsumers++
HandleConsumerCompletionNoCount(consumerNo, result) ==
    /\ session' = [ session EXCEPT !.results = Append(@, result) ]
    /\ completedConsumers' = completedConsumers
    /\ consumersInProgress' = consumersInProgress \ { consumerNo }

\* handleConsumerCompletion
HandleConsumerCompletion(consumerNo, result) ==
    /\ session' = [ session EXCEPT !.results = Append(@, result) ]
    /\ completedConsumers' = completedConsumers + 1
    /\ consumersInProgress' = consumersInProgress \ { consumerNo }

\* the result object processConsumer returns, and the one the .catch of
\* its caller builds
SuccessResult(i) == [ consumerNo |-> FormattedConsumerNo(queue[i]), error |-> FALSE ]
ErrorResult(i) == [ consumerNo |-> queue[i], error |-> TRUE ]

\* the catch block with the limit tested as retries > maxRetries
CatchBlockOffByOne(i) ==
    LET t == tasks[i]
        r == t.retries + 1
    IN /\ t.browserId # NoBrowser => CanRelease
       /\ pendingReleases' = IF t.browserId # NoBrowser
                             THEN ReleaseCalled(t.browserId)
                             ELSE pendingReleases
       /\ IF r > maxRetries
          THEN /\ tasks' = [ tasks EXCEPT ![i].pc = "done", ![i].retries = r,
                                          ![i].browserId = NoBrowser ]
               /\ HandleConsumerCompletion(queue[i], ErrorResult(i))
          ELSE /\ tasks' = [ tasks EXCEPT ![i].pc = "wait5s", ![i].retries = r,
                                          ![i].browserId = NoBrowser ]
               /\ UNCHANGED << session, completedConsumers, consumersInProgress >>

\* the catch block that releases the browser only when it gives up
CatchBlockKeepsBrowser(i) ==
    LET t == tasks[i]
        r == t.retries + 1
    IN IF r >= maxRetries
       THEN /\ t.browserId # NoBrowser => CanRelease
            /\ pendingReleases' = IF t.browserId # NoBrowser
                                  THEN ReleaseCalled(t.browserId)
                                  ELSE pendingReleases
            /\ tasks' = [ tasks EXCEPT ![i].pc = "done", ![i].retries = r,
                                       ![i].browserId = NoBrowser ]
            /\ HandleConsumerCompletion(queue[i], ErrorResult(i))
       ELSE /\ tasks' = [ tasks EXCEPT ![i].pc = "wait5s", ![i].retries = r ]
            /\ UNCHANGED << session, completedConsumers, consumersInProgress,
                            pendingReleases >>

\* catch block of processConsumer for task i (lines 1080-1094), followed,
\* when the error is rethrown, by the .catch of the caller
CatchBlock(i) ==
    LET t == tasks[i]
        r == t.retries + 1
    IN /\ t.browserId # NoBrowser => CanRelease
       /\ pendingReleases' = IF t.browserId # NoBrowser
                             THEN ReleaseCalled(t.browserId)
                             ELSE pendingReleases
       /\ IF r >= maxRetries
          THEN /\ tasks' = [ tasks EXCEPT ![i].pc = "done", ![i].retries = r,
                                          ![i].browserId = NoBrowser ]
               /\ HandleConsumerCompletion(queue[i], ErrorResult(i))
          ELSE /\ tasks' = [ tasks EXCEPT ![i].pc = "wait5s", ![i].retries = r,
                                          ![i].browserId = NoBrowser ]
               /\ UNCHANGED << session, completedConsumers, consumersInProgress >>

\* navigateToMGVCL / selectCompany / enterConsumerNumber / isCaptchaRequired
\* rejects
WorkFail(i) ==
    /\ CanFail
    /\ hist' = Faulted(hist)
    /\ tasks[i].pc = "work"
    /\ CatchBlock(i)
    /\ UNCHANGED << bm, started, currentQueueIndex, processingCompleted,
                    checkerActive, handlers, issued >>
    /\ UNCHANGED << upload, api, checker, poll, viewer, pair >>

\* isCaptchaRequired returned false
WorkNoCaptcha(i) ==
    /\ tasks[i].pc = "work"
    /\ tasks' = [ tasks EXCEPT ![i].pc = "submit" ]
    /\ UNCHANGED << bm, session, started, currentQueueIndex, completedConsumers,
                    processingCompleted, checkerActive, consumersInProgress,
                    pendingReleases, handlers, issued, hist >>
    /\ UNCHANGED << upload, api, checker, poll, viewer, pair >>

\* isCaptchaRequired returned true: lockForCaptcha, then getCaptchaImage
WorkCaptcha(i) ==
    /\ tasks[i].pc = "work"
    /\ hist.challenges < hist.challengeBudget
    /\ bm' = LockForCaptcha(bm, tasks[i].browserId, FormattedConsumerNo(queue[i]))
    /\ tasks' = [ tasks EXCEPT ![i].pc = "captchaImage" ]
    /\ hist' = [ hist EXCEPT !.accepted[tasks[i].browserId] = 0,
                             !.answered = @ \ {i},
                             !.challenges = @ + 1 ]
    /\ UNCHANGED << session, started, currentQueueIndex, completedConsumers,
                    processingCompleted, checkerActive, consumersInProgress,
                    pendingReleases, handlers, issued >>
    /\ UNCHANGED << upload, api, checker, poll, viewer, pair >>

\* getCaptchaImage resolved: the challenge is emitted and the wait starts
CaptchaImageOk(i) ==
    /\ tasks[i].pc = "captchaImage"
    /\ session' = [ session EXCEPT !.waitingForCaptcha = TRUE ]
    /\ issued' = issued \cup { << tasks[i].browserId, FormattedConsumerNo(queue[i]) >> }
    /\ tasks' = [ tasks EXCEPT ![i].pc = "captcha" ]
    \* const startTime = Date.now()
    /\ hist' = [ hist EXCEPT !.sinceIssue = @ \ {i}, !.sinceReissue = @ \ {i} ]
    /\ UNCHANGED << bm, started, currentQueueIndex, completedConsumers,
                    processingCompleted, checkerActive, consumersInProgress,
                    pendingReleases, handlers >>
    /\ UNCHANGED << upload, api, checker, poll, viewer, pair >>

\* getCaptchaImage rejected
CaptchaImageFail(i) ==
    /\ CanFail
    /\ hist' = Faulted(hist)
    /\ tasks[i].pc = "captchaImage"
    /\ CatchBlock(i)
    /\ UNCHANGED << bm, started, currentQueueIndex, processingCompleted,
                    checkerActive, handlers, issued >>
    /\ UNCHANGED << upload, api, checker, poll, viewer, pair >>

\* one evaluation of the loop "while (session.waitingForCaptcha)" after its
\* 1 second wait; expired: Date.now() - startTime >= captchaTimeout
CaptchaWait(i, expired) ==
    /\ tasks[i].pc = "captcha"
    /\ IF ~session.waitingForCaptcha
       THEN /\ tasks' = [ tasks EXCEPT ![i].pc = "submit" ]
            /\ UNCHANGED << session, completedConsumers, consumersInProgress,
                            pendingReleases >>
       ELSE /\ expired
            /\ CatchBlock(i)
    /\ UNCHANGED << bm, started, currentQueueIndex, processingCompleted,
                    checkerActive, handlers, issued, hist >>
    /\ UNCHANGED << upload, api, checker, poll, viewer, pair >>

\* submitAndGetResults resolved: release the browser, return the result;
\* the .then of the caller runs handleConsumerCompletion
SubmitOk(i) ==
    /\ tasks[i].pc = "submit"
    /\ CanRelease
    /\ pendingReleases' = ReleaseCalled(tasks[i].browserId)
    /\ tasks' = [ tasks EXCEPT ![i].pc = "done", ![i].browserId = NoBrowser ]
    /\ HandleConsumerCompletion(queue[i], SuccessResult(i))
    /\ UNCHANGED << bm, started, currentQueueIndex, processingCompleted,
                    checkerActive, handlers, issued, hist >>
    /\ UNCHANGED << upload, api, checker, poll, viewer, pair >>

\* submitAndGetResults rejected
SubmitFail(i) ==
    /\ CanFail
    /\ hist' = Faulted(hist)
    /\ tasks[i].pc = "submit"
    /\ CatchBlock(i)
    /\ UNCHANGED << bm, started, currentQueueIndex, processingCompleted,
                    checkerActive, handlers, issued >>
    /\ UNCHANGED << upload, api, checker, poll, viewer, pair >>

\* a 5 second wait of the retry loop is over: next iteration
WaitDone(i) ==
    /\ tasks[i].pc = "wait5s"
    /\ SetWorld(LoopTop(World, i))
    /\ UNCHANGED << session, started, completedConsumers, processingCompleted,
                    checkerActive, pendingReleases, handlers, issued, hist >>
    /\ UNCHANGED << upload, api, checker, poll, viewer, pair >>

\* the 5 minute timer of getAvailableBrowser fires for the queued request
\* of task i (the timer is cleared when the queued function is called)
AcquireTimeout(i) ==
    /\ tasks[i].pc = "queued"
    /\ ~tasks[i].timerFired
    /\ LET queueIndex == IndexOf(bm.browserQueue, QueueResolve(i)) IN
       IF queueIndex > 0
       THEN /\ bm' = [ bm EXCEPT !.browserQueue = SpliceOne(@, queueIndex) ]
            \* resolve(null): "No browser available, waiting 5 seconds"
            /\ tasks' = [ tasks EXCEPT ![i].pc = "wait5s", ![i].timerFired = TRUE ]
       ELSE /\ bm' = bm
            /\ tasks' = [ tasks EXCEPT ![i].timerFired = TRUE ]
    /\ UNCHANGED << session, started, currentQueueIndex, completedConsumers,
                    processingCompleted, checkerActive, consumersInProgress,
                    pendingReleases, handlers, issued, hist >>
    /\ UNCHANGED << upload, api, checker, poll, viewer, pair >>

\* ------------------------------------------------------------------------
\* BrowserManager.releaseBrowser: completion of a call
\* ------------------------------------------------------------------------
\* page.goto resolved: reset, emit 'browser-available' (the listener runs
\* inside the emit), then hand-off or push
ReleaseFinishOk(b) ==
    /\ started
    /\ pendingReleases[b] > 0
    /\ LET w1 == BrowserAvailableListener([ World EXCEPT !.bm = ReleaseReset(bm, b) ])
           h  == ReleaseHandOff(w1.bm, b)
           w2 == IF h.waiter = 0
                 THEN [ w1 EXCEPT !.bm = h.bm ]
                 ELSE [ w1 EXCEPT !.bm = h.bm,
                                  !.tasks[h.waiter].pc = "work",
                                  !.tasks[h.waiter].browserId = b,
                                  !.tasks[h.waiter].timerFired = FALSE ]
       IN SetWorld(w2)
    /\ pendingReleases' = [ pendingReleases EXCEPT ![b] = @ - 1 ]
    /\ UNCHANGED << session, started, completedConsumers, processingCompleted,
                    checkerActive, handlers, issued, hist >>
    /\ UNCHANGED << upload, api, checker, poll, viewer, pair >>

\* page.goto rejected: the catch block
ReleaseFinishFail(b) ==
    /\ started
    /\ pendingReleases[b] > 0
    /\ bm' = ReleaseCatch(bm, b)
    /\ pendingReleases' = [ pendingReleases EXCEPT ![b] = @ - 1 ]
    /\ CanFail
    /\ hist' = [ Faulted(hist) EXCEPT !.failedReset = b ]
    /\ UNCHANGED << session, started, currentQueueIndex, completedConsumers,
                    processingCompleted, checkerActive, consumersInProgress,
                    tasks, handlers, issued >>
    /\ UNCHANGED << upload, api, checker, poll, viewer, pair >>

\* ------------------------------------------------------------------------
\* socket.on('captcha-response')
\* ------------------------------------------------------------------------
\* a handler invocation that has returned (its locals are dead); reply is
\* the event it emitted to the viewer
DoneHandler(reply) ==
    [ pc |-> "done", browserId |-> NoBrowser, consumerNo |-> NoConsumer ]

\* the handler invocation that serves the next message
NextHandler == CHOOSE k \in 1..MaxAnswers :
                   /\ handlers[k].pc = "unused"
                   /\ \A j \in 1..(k - 1) : handlers[j].pc # "unused"

\* line 530: the browser is waiting for a captcha of this consumer
CaptchaStateValid(m, b, consumerNo) ==
    /\ b \in DOMAIN m.browsers
    /\ m.browsers[b].captchaRequired
    /\ m.browsers[b].currentConsumer = consumerNo

\* the tasks suspended on the challenge (b, consumerNo)
WaitingOn(b, consumerNo) ==
    { i \in Indices : /\ tasks[i].pc = "captcha"
                      /\ tasks[i].browserId = b
                      /\ FormattedConsumerNo(queue[i]) = consumerNo }

\* the handler of the earlier revision (server.js line 1182), which clears
\* the flag of the batch when it takes an answer
SessionAfterAnswerClearsFlag(s) == [ s EXCEPT !.waitingForCaptcha = FALSE ]

\* what the handler writes to the session record when it takes an answer:
\* nothing (lines 526-534 do not assign to session)
SessionAfterAnswer(s) == s

\* a viewer answers a challenge it was shown: the handler up to its first
\* await (submitCaptcha in flight), or up to its end when the check throws
CaptchaResponse(p) ==
    /\ \E k \in 1..MaxAnswers : handlers[k].pc = "unused"
    /\ LET k == NextHandler
           b == p[1]
           c == p[2]
       IN IF ~session.waitingForCaptcha
          THEN /\ handlers' = [ handlers EXCEPT ![k] =
                     DoneHandler("ignored") ]
               /\ UNCHANGED << session, pendingReleases, hist >>
          ELSE IF ~CaptchaStateValid(bm, b, c)
          THEN \* throw, catch: captcha-error, finally: releaseBrowser
               /\ CanRelease
               /\ handlers' = [ handlers EXCEPT ![k] =
                     DoneHandler("captcha-error") ]
               /\ pendingReleases' = ReleaseCalled(b)
               /\ UNCHANGED << session, hist >>
          ELSE /\ handlers' = [ handlers EXCEPT ![k] =
                     [ pc |-> "submitCaptcha", browserId |-> b, consumerNo |-> c ] ]
               /\ hist' = [ hist EXCEPT !.accepted[b] = @ + 1 ]
               /\ session' = SessionAfterAnswer(session)
               /\ UNCHANGED pendingReleases
    /\ UNCHANGED << bm, started, currentQueueIndex, completedConsumers,
                    processingCompleted, checkerActive, consumersInProgress,
                    tasks, issued >>
    /\ UNCHANGED << upload, api, checker, poll, viewer, pair >>

\* BrowserManager.submitCaptcha found the bill details: captcha accepted
SubmitCaptchaSuccess(k) ==
    /\ handlers[k].pc = "submitCaptcha"
    /\ bm' = [ bm EXCEPT !.browsers[handlers[k].browserId].captchaRequired = FALSE ]
    /\ handlers' = [ handlers EXCEPT ![k].pc = "getResults" ]
    /\ hist' = [ hist EXCEPT !.answered =
                     @ \cup WaitingOn(handlers[k].browserId, handlers[k].consumerNo) ]
    /\ UNCHANGED << session, started, currentQueueIndex, completedConsumers,
                    processingCompleted, checkerActive, consumersInProgress,
                    tasks, pendingReleases, issued >>
    /\ UNCHANGED << upload, api, checker, poll, viewer, pair >>

\* BrowserManager.submitCaptcha found the invalid-captcha modal (it
\* refreshes the captcha and throws) or timed out: catch, finally
SubmitCaptchaInvalid(k) ==
    /\ CanFail
    /\ hist' = Faulted(hist)
    /\ handlers[k].pc = "submitCaptcha"
    /\ CanRelease
    /\ handlers' = [ handlers EXCEPT ![k] = DoneHandler("captcha-error") ]
    /\ pendingReleases' = ReleaseCalled(handlers[k].browserId)
    /\ UNCHANGED << bm, session, started, currentQueueIndex, completedConsumers,
                    processingCompleted, checkerActive, consumersInProgress,
                    tasks, issued >>
    /\ UNCHANGED << upload, api, checker, poll, viewer, pair >>

\* submitAndGetResults of the handler resolved: the handler pushes a result
\* and releases the browser
HandlerResultsOk(k) ==
    /\ handlers[k].pc = "getResults"
    /\ CanRelease
    /\ session' = [ session EXCEPT !.results =
                        Append(@, [ consumerNo |-> handlers[k].consumerNo, error |-> FALSE ]) ]
    /\ handlers' = [ handlers EXCEPT ![k] = DoneHandler("captcha-submitted") ]
    /\ pendingReleases' = ReleaseCalled(handlers[k].browserId)
    /\ UNCHANGED << bm, started, currentQueueIndex, completedConsumers,
                    processingCompleted, checkerActive, consumersInProgress,
                    tasks, issued, hist >>
    /\ UNCHANGED << upload, api, checker, poll, viewer, pair >>

\* submitAndGetResults of the handler rejected: catch, finally
HandlerResultsFail(k) ==
    /\ CanFail
    /\ hist' = Faulted(hist)
    /\ handlers[k].pc = "getResults"
    /\ CanRelease
    /\ handlers' = [ handlers EXCEPT ![k] = DoneHandler("captcha-error") ]
    /\ pendingReleases' = ReleaseCalled(handlers[k].browserId)
    /\ UNCHANGED << bm, session, started, currentQueueIndex, completedConsumers,
                    processingCompleted, checkerActive, consumersInProgress,
                    tasks, issued >>
    /\ UNCHANGED << upload, api, checker, poll, viewer, pair >>

\* socket.on('reload-captcha'): refreshCaptcha and getCaptchaImage act on the
\* page only; the challenge is emitted again for the pair the viewer named.
\* No browser is released and the startTime of the waiting processConsumer
\* is not touched (refreshCaptcha stamps lastCaptchaRefresh, which nothing
\* reads). The time of the reissue is recorded for the tasks that wait on
\* the browser.
ReloadCaptcha(p) ==
    /\ issued' = issued \cup { p }
    /\ hist' = [ hist EXCEPT !.sinceReissue =
                    @ \ { i \in Indices : tasks[i].pc = "captcha" /\ tasks[i].browserId = p[1] } ]
    /\ UNCHANGED << bm, session, started, currentQueueIndex, completedConsumers,
                    processingCompleted, checkerActive, consumersInProgress,
                    tasks, pendingReleases, handlers >>
    /\ UNCHANGED << upload, api, checker, poll, viewer, pair >>

\* captchaTimeout (5 minutes) passes: for every task in the wait loop that
\* much time has gone by since its startTime and since the last reissue of
\* its challenge
CaptchaTimeoutPasses ==
    /\ \E i \in Indices : tasks[i].pc = "captcha"
    /\ hist' = [ hist EXCEPT
                    !.sinceIssue = @ \cup { i \in Indices : tasks[i].pc = "captcha" },
                    !.sinceReissue = @ \cup { i \in Indices : tasks[i].pc = "captcha" } ]
    /\ UNCHANGED << bm, session, started, currentQueueIndex, completedConsumers,
                    processingCompleted, checkerActive, consumersInProgress,
                    tasks, pendingReleases, handlers, issued >>
    /\ UNCHANGED << upload, api, checker, poll, viewer, pair >>

\* ------------------------------------------------------------------------
\* completionChecker and finishProcessing
\* ------------------------------------------------------------------------
\* times in seconds
maxProcessingTime == 900
StallWindow == 60
ForceMinElapsed == 120
\* Date.now() when processConsumerNumbers started
StartTime == 1700000000
\* elapsed times at which the interval callback is observed
ElapsedSamples == { 5, 65, 125, 905 }

\* the rows finishProcessing adds for the queue entries without a result
RECURSIVE MissingRows(_, _)
MissingRows(q, processed) ==
    IF q = << >> THEN << >>
    ELSE (IF Head(q) \in processed
          THEN << >>
          ELSE << [ consumerNo |-> Head(q), error |-> TRUE ] >>)
         \o MissingRows(Tail(q), processed)

\* finishProcessing up to the call of writeResults
FinishedResults(results, q, completed) ==
    IF completed = Len(q) THEN results
    ELSE results \o MissingRows(q, { results[j].consumerNo : j \in 1..Len(results) })

\* the completion conditions of the interval callback at elapsed time e, the
\* last completion having happened at elapsed time lc
ShouldFinish(e, lc) ==
    LET lastCompletionTime == StartTime + lc
        isComplete == completedConsumers >= Len(queue) /\ Len(queue) > 0
        isTimeout == e > maxProcessingTime
        isStalled == /\ e > StallWindow
                     /\ completedConsumers > 0
                     /\ e > lastCompletionTime + StallWindow
        shouldForceComplete == /\ completedConsumers * 10 >= Len(queue) * 8
                               /\ e > ForceMinElapsed
    IN isComplete \/ isTimeout \/ isStalled \/ shouldForceComplete

\* the conditions of the interval callback, as functions of what it reads
isComplete(c, n) == c >= n /\ n > 0

isTimeout(e) == e > maxProcessingTime

\* lastCompletionTime is a Date.now() value, elapsedTime a difference
isStalled(c, e, lc) ==
    /\ e > StallWindow
    /\ c > 0
    /\ e > (StartTime + lc) + StallWindow

\* the rule with the stall window in the place of the two minutes
shouldForceCompleteEarly(c, n, e) == c * 10 >= n * 8 /\ e > StallWindow

\* completedConsumers >= queue.length * 0.8 && elapsedTime > 120000
shouldForceComplete(c, n, e) == c * 10 >= n * 8 /\ e > ForceMinElapsed

\* the if-chain that names the reason; "" when no condition holds
completionReason(c, n, e, lc) ==
    IF isComplete(c, n) THEN "complete"
    ELSE IF isTimeout(e) THEN "timeout"
    ELSE IF isStalled(c, e, lc) THEN "stalled"
    ELSE IF shouldForceComplete(c, n, e) THEN "force"
    ELSE ""

CheckerOthers ==
    UNCHANGED serverVars /\ UNCHANGED << upload, api, poll, viewer, pair >>

\* handleConsumerCompletion, as far as the checker sees it
CheckerCompletion ==
    /\ checker.total > 0
    /\ checker.completedConsumers < checker.total
    /\ checker' = [ checker EXCEPT !.completedConsumers = @ + 1,
                                   !.lastCompletion = checker.elapsedTime ]
    /\ CheckerOthers

\* TickPeriod seconds pass and the interval callback runs; it clears the
\* interval when it finishes the batch
CheckerTick ==
    /\ checker.total > 0
    /\ ~checker.processingCompleted
    /\ checker.elapsedTime + TickPeriod <= MaxElapsed
    /\ LET elapsedTime == checker.elapsedTime + TickPeriod
           reason == completionReason(checker.completedConsumers, checker.total,
                                      elapsedTime, checker.lastCompletion)
       IN checker' = [ checker EXCEPT !.elapsedTime = elapsedTime,
                                      !.completionReason = reason,
                                      !.processingCompleted = (reason # "") ]
    /\ CheckerOthers

\* the callback on completion, with both flags left as they were
FinishedFlagsForgotten == [ processingCompleted |-> FALSE, checkerActive |-> TRUE ]

\* the callback on completion: processingCompleted = true, clearInterval
FinishedFlags == [ processingCompleted |-> TRUE, checkerActive |-> FALSE ]

\* finishProcessing whose catch block swallows the export error
ExportFailedSwallowed(s) == s

\* finishProcessing, catch block: writeResults threw
ExportFailed(s) == [ s EXCEPT !.status = "error" ]

\* finishProcessing after writeResults returned
ExportWritten(s) == [ s EXCEPT !.status = "completed", !.resultsPath = TRUE ]

\* one run of the interval callback at elapsed time e, the last completion
\* having happened at elapsed time lc; writeOk: writeResults did not throw.
\* finishProcessing has no real suspension before the status is set
\* (writeResults has no await inside), so it is part of the step.
CompletionCheck(e, lc, writeOk) ==
    /\ started
    /\ checkerActive
    /\ lc <= e
    /\ ~writeOk => CanFail
    /\ hist' = [ (IF writeOk
                  THEN [ hist EXCEPT !.export = WriteResults(
                             FinishedResults(session.results, queue, completedConsumers)) ]
                  ELSE Faulted(hist)) EXCEPT
                     !.finalizations = Min(@ + 1, MaxFinalizations) ]
    /\ ShouldFinish(e, lc)
    /\ ~processingCompleted
    /\ processingCompleted' = FinishedFlags.processingCompleted
    /\ checkerActive' = FinishedFlags.checkerActive
    /\ LET s == [ session EXCEPT
                     !.results = FinishedResults(session.results, queue, completedConsumers) ]
       IN session' = IF writeOk THEN ExportWritten(s) ELSE ExportFailed(s)
    /\ UNCHANGED << bm, started, currentQueueIndex, completedConsumers,
                    consumersInProgress, tasks, pendingReleases, handlers,
                    issued >>
    /\ UNCHANGED << upload, api, checker, poll, viewer, pair >>

Next ==
    \/ Start
    \/ \E i \in Indices : WorkFail(i)
    \/ \E i \in Indices : WorkNoCaptcha(i)
    \/ \E i \in Indices : WorkCaptcha(i)
    \/ \E i \in Indices : CaptchaImageOk(i)
    \/ \E i \in Indices : CaptchaImageFail(i)
    \/ \E i \in Indices, expired \in BOOLEAN : CaptchaWait(i, expired)
    \/ \E i \in Indices : SubmitOk(i)
    \/ \E i \in Indices : SubmitFail(i)
    \/ \E i \in Indices : WaitDone(i)
    \/ \E i \in Indices : AcquireTimeout(i)
    \/ \E b \in DOMAIN pendingReleases : ReleaseFinishOk(b)
    \/ \E b \in DOMAIN pendingReleases : ReleaseFinishFail(b)
    \/ \E p \in issued : CaptchaResponse(p)
    \/ \E k \in 1..MaxAnswers : SubmitCaptchaSuccess(k)
    \/ \E k \in 1..MaxAnswers : SubmitCaptchaInvalid(k)
    \/ \E k \in 1..MaxAnswers : HandlerResultsOk(k)
    \/ \E k \in 1..MaxAnswers : HandlerResultsFail(k)
    \/ \E p \in issued : ReloadCaptcha(p)
    \/ \E e \in ElapsedSamples, lc \in ElapsedSamples, writeOk \in BOOLEAN :
           CompletionCheck(e, lc, writeOk)

Spec == Init /\ [][Next]_vars

\* the interval timer of the completion checker fires every 5 seconds for
\* as long as it is armed
SpecFair ==
    /\ Spec
    /\ WF_vars(\E e \in ElapsedSamples, lc \in ElapsedSamples, writeOk \in BOOLEAN :
                   CompletionCheck(e, lc, writeOk))

\* the steps of a run in which no external operation fails
NextTwoChallenges ==
    \/ Start
    \/ \E i \in Indices : WorkNoCaptcha(i)
    \/ \E i \in Indices : WorkCaptcha(i)
    \/ \E i \in Indices : CaptchaImageOk(i)
    \/ \E i \in Indices, expired \in BOOLEAN : CaptchaWait(i, expired)
    \/ \E i \in Indices : SubmitOk(i)
    \/ \E i \in Indices : WaitDone(i)
    \/ \E i \in Indices : AcquireTimeout(i)
    \/ \E b \in DOMAIN pendingReleases : ReleaseFinishOk(b)
    \/ \E p \in issued : CaptchaResponse(p)
    \/ \E k \in 1..MaxAnswers : SubmitCaptchaSuccess(k)
    \/ \E k \in 1..MaxAnswers : HandlerResultsOk(k)
    \/ \E p \in issued : ReloadCaptcha(p)
    \/ \E e \in ElapsedSamples, lc \in ElapsedSamples :
           CompletionCheck(e, lc, TRUE)

SpecTwoChallenges == InitTwoChallenges /\ [][NextTwoChallenges]_vars

\* the steps of a run in which the site never asks a captcha
NextRetries ==
    \/ Start
    \/ \E i \in Indices : WorkFail(i)
    \/ \E i \in Indices : WorkNoCaptcha(i)
    \/ \E i \in Indices : SubmitOk(i)
    \/ \E i \in Indices : SubmitFail(i)
    \/ \E i \in Indices : WaitDone(i)
    \/ \E i \in Indices : AcquireTimeout(i)
    \/ \E b \in DOMAIN pendingReleases : ReleaseFinishOk(b)
    \/ \E b \in DOMAIN pendingReleases : ReleaseFinishFail(b)
    \/ \E e \in ElapsedSamples, lc \in ElapsedSamples, writeOk \in BOOLEAN :
           CompletionCheck(e, lc, writeOk)

SpecRetries == InitRetries /\ [][NextRetries]_vars

\* a pool one browser smaller than the batch, in a run without captchas
InitSmallPool ==
    /\ InitServer(MaxFaults, 0, maxBrowsers - 1, Batches)
    /\ upload = NoUpload
    /\ api = ApiConstructed
    /\ SideIdle

SpecSmallPool == InitSmallPool /\ [][NextRetries]_vars

\* a run without failures in which the captcha timeout is measured against
\* the times of issue and reissue
NextDeadline ==
    \/ Start
    \/ \E i \in Indices : WorkNoCaptcha(i)
    \/ \E i \in Indices : WorkCaptcha(i)
    \/ \E i \in Indices : CaptchaImageOk(i)
    \/ \E i \in Indices : CaptchaWait(i, i \in hist.sinceIssue)
    \/ \E i \in Indices : SubmitOk(i)
    \/ \E i \in Indices : WaitDone(i)
    \/ \E i \in Indices : AcquireTimeout(i)
    \/ \E b \in DOMAIN pendingReleases : ReleaseFinishOk(b)
    \/ \E p \in issued : ReloadCaptcha(p)
    \/ CaptchaTimeoutPasses
    \/ \E e \in ElapsedSamples, lc \in ElapsedSamples :
           CompletionCheck(e, lc, TRUE)

SpecDeadline == InitWith(0, MaxChallenges) /\ [][NextDeadline]_vars

\* the steps of a run without captchas in which the browsers may fail to
\* launch and viewers connect at any time
NextReconnect ==
    \/ Start
    \/ \E k \in 0..(maxBrowsers - 1), writeOk \in BOOLEAN : StartFail(k, writeOk)
    \/ \E i \in Indices : WorkFail(i)
    \/ \E i \in Indices : WorkNoCaptcha(i)
    \/ \E i \in Indices : SubmitOk(i)
    \/ \E i \in Indices : SubmitFail(i)
    \/ \E i \in Indices : WaitDone(i)
    \/ \E i \in Indices : AcquireTimeout(i)
    \/ \E b \in DOMAIN pendingReleases : ReleaseFinishOk(b)
    \/ \E b \in DOMAIN pendingReleases : ReleaseFinishFail(b)
    \/ \E e \in ElapsedSamples, lc \in ElapsedSamples, writeOk \in BOOLEAN :
           CompletionCheck(e, lc, writeOk)
    \/ Connect

SpecReconnect == InitRetries /\ [][NextReconnect]_vars

\* reading a sheet and entering its numbers
NextUpload ==
    \/ ReadRow
    \/ ReadReturn
    \/ EnterConsumerNumber

SpecUpload == InitUpload /\ [][NextUpload]_vars

\* the calls on the ApiProcessor
NextApi ==
    \/ ApiInitialize
    \/ \E c \in ApiCalls, consumerNo \in RawIds : GetCaptchaForConsumer(c, consumerNo)
    \/ \E c \in ApiCalls : ApiAcquireTimeout(c)
    \/ \E c \in ApiCalls : ApiCaptchaImageOk(c)
    \/ \E c \in ApiCalls : ApiCaptchaImageFail(c)
    \/ \E id \in ApiIds : SubmitCaptchaAndGetDetails(id)
    \/ \E id \in ApiIds : ApiSubmitOk(id)
    \/ \E id \in ApiIds : ApiSubmitFail(id)
    \/ \E id \in ApiIds : ReleaseInstance(id)
    \/ \E id \in ApiIds : LockExpire(id)
    \/ CleanupInterval

\* time passes, the cleanup interval fires every 30 seconds, and a request
\* or reset that was sent completes (axios times out after 30 seconds); the
\* viewer need not answer and no further call need be made
SpecApiFair ==
    /\ InitApi
    /\ [][NextApi]_vars
    /\ WF_vars(\E id \in ApiIds : LockExpire(id))
    /\ WF_vars(CleanupInterval)
    /\ WF_vars(\E id \in ApiIds : ReleaseInstance(id))
    /\ WF_vars(\E c \in ApiCalls : ApiCaptchaImageOk(c))
    /\ WF_vars(\E id \in ApiIds : ApiSubmitOk(id))

\* ------------------------------------------------------------------------
\* Properties
\* ------------------------------------------------------------------------
Terminal == session.status \in { "completed", "error" }

\* the task holds a browser it got from getAvailableBrowser and has not
\* yet passed to releaseBrowser
Holds(i) == tasks[i].pc \in { "work", "captchaImage", "captcha", "submit" }

\* the processConsumer call of the task has started and not yet settled
ActiveTask(i) == tasks[i].pc \notin { "unclaimed", "dropped", "done" }

Holders(b) == { i \in Indices : Holds(i) /\ tasks[i].browserId = b }

\* number of results, and of queue entries, for the consumer number whose
\* 11-digit form is x
OutcomesFor(x) ==
    Cardinality({ j \in 1..Len(session.results) :
                      formatConsumerNumber(session.results[j].consumerNo) = x })
EntriesFor(x) ==
    Cardinality({ j \in 1..Len(queue) : formatConsumerNumber(queue[j]) = x })

\* C1: once the batch status is terminal, the results hold exactly one
\* Outcome per Work Item: for every consumer number of the batch, as many
\* results as the batch has entries for it.
C1_ExactlyOneOutcomePerItem ==
    Terminal =>
        \A i \in Indices :
            OutcomesFor(formatConsumerNumber(queue[i])) =
            EntriesFor(formatConsumerNumber(queue[i]))

\* C2: no two running processConsumer calls are about the same consumer
\* number (an identifier is never claimed while it is already in progress).
C2_NoWorkItemHeldTwice ==
    \A i \in Indices : \A j \in Indices :
        (i # j /\ ActiveTask(i) /\ ActiveTask(j)) => queue[i] # queue[j]

\* C3: a Session is bound to at most one in-flight workflow: two tasks
\* that hold a browser, one of them possibly suspended on a captcha, never
\* hold the same browser.
C3_SessionServesOneWorkflow ==
    \A i \in Indices : \A j \in Indices :
        (i # j /\ Holds(i) /\ Holds(j)) => tasks[i].browserId # tasks[j].browserId

\* C4: while requests are queued, a completed release hands the browser to
\* the oldest queued request, and no request that arrived later is served
\* from the available list before the queued ones.
C4_WaitersServedInArrivalOrder ==
    [][ bm.browserQueue # << >> =>
          /\ \A b \in DOMAIN pendingReleases :
                 pendingReleases'[b] < pendingReleases[b] =>
                     LET w == Head(bm.browserQueue)[2]
                     IN tasks'[w].pc = "work" /\ tasks'[w].browserId = b
          /\ \A i \in Indices :
                 (tasks[i].pc \notin { "queued", "work" } /\ tasks'[i].pc = "work") =>
                     FALSE
      ]_vars

\* C5: a queued acquire whose bounded wait has elapsed is no longer in the
\* waiter queue (it was removed and resolved with null).
C5_AcquireWaitIsBounded ==
    \A i \in Indices : tasks[i].timerFired => tasks[i].pc # "queued"

\* C6: every Session is on the free list exactly once and not held, or
\* held by exactly one holder and not on the free list, or in the middle
\* of a release; it is never lost and never handed out twice.
C6_FreeOnceOrHeldOnce ==
    started =>
        \A b \in DOMAIN bm.browsers :
            LET free == CountIn(bm.availableBrowsers, b)
                held == Cardinality(Holders(b))
            IN /\ free <= 1
               /\ held <= 1
               /\ free + held <= 1
               /\ free + held + pendingReleases[b] >= 1

C9_StaleRejectedMatchingOnce ==
    [][ \A k \in 1..MaxAnswers :
            (handlers[k].pc = "unused" /\ handlers'[k].pc = "submitCaptcha") =>
                /\ CaptchaStateValid(bm, handlers'[k].browserId, handlers'[k].consumerNo)
                /\ hist.accepted[handlers'[k].browserId] = 0
      ]_vars

\* C10: a workflow suspended on a challenge whose answer was accepted goes
\* on to submitAndGetResults; it does not leave the wait by a timeout.
C10_AnsweredWorkflowResumes ==
    [][ \A i \in Indices :
            (tasks[i].pc = "captcha" /\ i \in hist.answered) =>
                tasks'[i].pc \in { "captcha", "submit" }
      ]_vars

\* C11: a workflow that leaves its captcha wait without being resumed (the
\* deadline passed) has one more failed attempt, is back in the retry loop
\* or finished with an error, and releaseBrowser was called for the browser
\* it held.
C11_CaptchaTimeoutFailsAttemptAndReleases ==
    [][ \A i \in Indices :
            (tasks[i].pc = "captcha" /\ tasks'[i].pc \notin { "captcha", "submit" }) =>
                /\ tasks'[i].retries = tasks[i].retries + 1
                /\ tasks'[i].pc \in { "wait5s", "done" }
                /\ pendingReleases'[tasks[i].browserId] =
                       pendingReleases[tasks[i].browserId] + 1
      ]_vars

\* no answer was sent and nothing failed; a workflow has timed out on its
\* challenge, waits for its next attempt, and the browser it held, still
\* locked for the captcha, is being released
C11_Witness ==
    /\ hist.faults = 0
    /\ \A k \in 1..MaxAnswers : handlers[k].pc = "unused"
    /\ \E i \in Indices :
           /\ tasks[i].pc = "wait5s"
           /\ tasks[i].retries = 1
    /\ \E b \in DOMAIN pendingReleases :
           /\ pendingReleases[b] = 1
           /\ bm.browsers[b].captchaRequired

\* C12: when the site rejects an answer (the handler ends after
\* submitCaptcha threw), no release of the browser is started: the Session
\* stays with the item that waits on the challenge.
C12_WrongAnswerKeepsSession ==
    [][ \A k \in 1..MaxAnswers :
            (handlers[k].pc = "submitCaptcha" /\ handlers'[k].pc = "done") =>
                pendingReleases'[handlers[k].browserId] =
                    pendingReleases[handlers[k].browserId]
      ]_vars

\* C13: a workflow suspended on its challenge is changed only by a step of
\* its own wait loop: no handler step (an answer for some challenge) and no
\* step of another workflow (its timeout) changes it; and it goes on to
\* submitAndGetResults only after an answer for its own browser and
\* consumer number was accepted.
C13_SuspendedWorkflowsAreIndependent ==
    [][ \A j \in Indices :
            (tasks[j].pc = "captcha" /\ tasks'[j] # tasks[j]) =>
                /\ handlers' = handlers
                /\ \A i \in Indices \ {j} : tasks'[i] = tasks[i]
                /\ tasks'[j].pc = "submit" => j \in hist.answered
      ]_vars

\* two workflows are suspended on challenges of different browsers; the
\* answer for one of them has been accepted, the other one still waits
C13_Witness ==
    \E i \in Indices : \E j \in Indices :
        /\ i # j
        /\ tasks[i].pc = "captcha" /\ tasks[j].pc = "captcha"
        /\ tasks[i].browserId # tasks[j].browserId
        /\ i \in hist.answered
        /\ j \notin hist.answered

\* C14: every failed attempt of an item adds one to its count of failures;
\* the third failure, and only the third, ends the item, with exactly one
\* error row added to the results; an ended item never changes again and
\* no attempt starts once the count is at the limit.
C14_ThreeAttemptsThenOneError ==
    [][ \A i \in Indices :
            /\ tasks'[i].retries <= maxRetries
            /\ tasks'[i].retries # tasks[i].retries =>
                   /\ tasks'[i].retries = tasks[i].retries + 1
                   /\ tasks'[i].retries = maxRetries <=> tasks'[i].pc = "done"
                   /\ session'.results =
                          IF tasks'[i].retries = maxRetries
                          THEN Append(session.results, ErrorResult(i))
                          ELSE session.results
            /\ tasks[i].pc = "done" => tasks'[i] = tasks[i]
            /\ (tasks[i].pc # "work" /\ tasks'[i].pc = "work") =>
                   tasks[i].retries < maxRetries
      ]_vars

\* an item has failed three times and is finished, with its error row in
\* the results
C14_Witness ==
    \E i \in Indices :
        /\ tasks[i].pc = "done"
        /\ tasks[i].retries = maxRetries
        /\ \E j \in 1..Len(session.results) : session.results[j] = ErrorResult(i)

\* every processConsumer call of the batch has settled
AllItemsTerminated == \A i \in Indices : tasks[i].pc = "done"

\* C15 as stated: once every item's workflow has terminated, the batch
\* eventually has the status completed.
C15_AllTerminatedLeadsToCompleted ==
    AllItemsTerminated ~> (session.status = "completed")

\* C15, amended: once every item's workflow has terminated, the batch is
\* eventually finalized, with all items counted: its status is completed,
\* or error when writing the export failed.
C15_AllTerminatedLeadsToFinalized ==
    AllItemsTerminated ~>
        /\ processingCompleted
        /\ completedConsumers = Len(queue)
        /\ Terminal

\* every item has terminated, one of them with an error after its retries
\* were used up or its challenge timed out, and the batch is completed
C15_Witness ==
    /\ AllItemsTerminated
    /\ session.status = "completed"
    /\ completedConsumers = Len(queue)
    /\ \E i \in Indices : tasks[i].retries > 0

\* number of rows of a results array for the consumer number whose 11-digit
\* form is x
RowsFor(results, x) ==
    Cardinality({ j \in 1..Len(results) : formatConsumerNumber(results[j].consumerNo) = x })

\* the step in which the interval callback calls finishProcessing
FinalizationStep == ~processingCompleted /\ processingCompleted'

\* C16: when the batch is force-completed with items outstanding, every item
\* is covered by a row of the results afterwards (as many rows for a
\* consumer number as the batch has entries for it), and an item that has
\* not terminated and has no row yet gets a row with an error.
C16_ForcedCompletionCoversHungItems ==
    [][ (FinalizationStep /\ completedConsumers < Len(queue)) =>
            \A i \in Indices :
                LET x == formatConsumerNumber(queue[i]) IN
                /\ RowsFor(session'.results, x) >= EntriesFor(x)
                /\ (tasks[i].pc # "done" /\ RowsFor(session.results, x) = 0) =>
                       \E j \in 1..Len(session'.results) :
                           session'.results[j] = [ consumerNo |-> queue[i], error |-> TRUE ]
      ]_vars

\* C17: while the checker is armed and at least one item has completed, a
\* check that runs more than the stall window after the last completion
\* finds a completion condition true and finalizes the batch.
C17_StallForcesCompletion ==
    (started /\ checkerActive /\ completedConsumers > 0) =>
        \A e \in ElapsedSamples : \A lc \in ElapsedSamples :
            (lc <= e /\ e > lc + StallWindow) => ShouldFinish(e, lc)

\* C18: finishProcessing is called at most once per batch.
C18_FinalizedOnce == hist.finalizations <= 1

\* the batch was force-completed with items outstanding; since then every
\* item has completed, so that the completion conditions hold again
C18_Witness ==
    /\ hist.finalizations = 1
    /\ processingCompleted
    /\ completedConsumers >= Len(queue)
    /\ \A k \in 1..MaxAnswers : handlers[k].pc = "unused"
    /\ Len(session.results) > Len(queue)
    /\ \E e \in ElapsedSamples : ShouldFinish(e, e)

\* C19: the status is processing until the batch is finalized; finalization
\* sets it to completed when every item has completed and to degraded when
\* the completion was forced with items outstanding (or to error when the
\* export failed).
C19_StatusCompletedOrDegraded ==
    [][ /\ ~processingCompleted => session.status = "processing"
        /\ FinalizationStep =>
               session'.status \in
                   { IF completedConsumers >= Len(queue) THEN "completed" ELSE "degraded",
                     "error" }
      ]_vars

\* the step in which writeResults of finishProcessing throws
ExportFailureStep == FinalizationStep /\ hist'.faults > hist.faults

TooShortCell == << 1, 2, 3 >>
FullWidthCell == << 1, 4, 1, 0, 2, 0, 0, 0, 6, 7, 4 >>
SevenDigitCell == << 9, 8, 7, 6, 5, 4, 3 >>
SevenDigitPadded == << 0, 0, 0, 0, 9, 8, 7, 6, 5, 4, 3 >>

\* C23: "123" never enters the batch; "14102000674" and "9876543" enter it
\* whenever their row has been read; "14102000674" is entered unchanged and
\* "9876543" is entered as "00009876543".
C23_NormalizationExamples ==
    /\ \A k \in 1..Len(upload.consumerNumbers) : upload.consumerNumbers[k] # TooShortCell
    /\ \A j \in 1..upload.row :
           upload.data[j] \in { FullWidthCell, SevenDigitCell } =>
               \E k \in 1..Len(upload.consumerNumbers) :
                   upload.consumerNumbers[k] = upload.data[j]
    /\ \A k \in 1..Len(upload.entered) :
           /\ upload.consumerNumbers[k] = FullWidthCell => upload.entered[k] = FullWidthCell
           /\ upload.consumerNumbers[k] = SevenDigitCell => upload.entered[k] = SevenDigitPadded

\* the sheet holds the three cells and every accepted number was entered
C23_Witness ==
    /\ \A x \in { TooShortCell, FullWidthCell, SevenDigitCell } :
           \E j \in 1..Len(upload.data) : upload.data[j] = x
    /\ upload.returned
    /\ Len(upload.entered) = Len(upload.consumerNumbers)
    /\ \E k \in 1..Len(upload.entered) : upload.entered[k] = FullWidthCell
    /\ \E k \in 1..Len(upload.entered) : upload.entered[k] = SevenDigitPadded

\* C24: every number entered into the site is PadWidth decimal digits, and
\* every number of the batch has between MinDigits and MaxDigits digits.
C24_EnteredFixedWidthDigits ==
    /\ \A k \in 1..Len(upload.entered) :
           /\ Len(upload.entered[k]) = PadWidth
           /\ \A c \in 1..Len(upload.entered[k]) : IsDigit(upload.entered[k][c])
    /\ \A k \in 1..Len(upload.consumerNumbers) :
           /\ Len(NumericOnly(upload.consumerNumbers[k])) >= MinDigits
           /\ Len(NumericOnly(upload.consumerNumbers[k])) <= MaxDigits

\* C30: an instance whose challenge expired unanswered and was cleaned up
\* is eventually released: it leaves the busy set for the available list,
\* or a releaseInstance call for it is under way (which hands it to a
\* waiter or makes it available).
C30_ExpiredChallengeReleasesInstance ==
    \A id \in ApiIds :
        (id \in api.obsolete) ~> (id \notin api.busyInstances \/ api.resets[id] > 0)

\* the results file has a row for the result r
Exported(r) ==
    \E j \in 1..Len(hist.export.rows) :
        /\ hist.export.rows[j].consumerNo = r.consumerNo
        /\ hist.export.rows[j].status = (IF r.error THEN "Error" ELSE "Success")

\* C21: when the batch has ended in error, a results file has been written
\* that holds a row for every result recorded so far and a row for every
\* item of the batch.
C21_FailedBatchStillExports ==
    session.status = "error" =>
        /\ hist.export.written
        /\ \A j \in 1..Len(session.results) : Exported(session.results[j])
        /\ \A i \in Indices :
               \E j \in 1..Len(hist.export.rows) :
                   formatConsumerNumber(hist.export.rows[j].consumerNo) =
                   formatConsumerNumber(queue[i])

\* C22: a viewer that connects when the batch is over has the completion
\* events scheduled for it.
C22_ReconnectReplaysTerminal == hist.lastConnect # "silent"

\* C25: no browser is on the available list while an acquire request is
\* queued (a release hands the browser to the oldest request instead).
C25_NoFreeSessionWhileWaiting ==
    Len(bm.browserQueue) > 0 => Len(bm.availableBrowsers) = 0

\* the items that were claimed and have no Outcome yet
InProgressItems == { i \in Indices : ActiveTask(i) }

\* C26: the number of items in progress never exceeds the size of the pool.
C26_InProgressWithinCapacity ==
    /\ Cardinality(InProgressItems) <= bm.maxBrowsers
    /\ Cardinality(consumersInProgress) <= bm.maxBrowsers

\* the task has a getAvailableBrowser request in the queue
HasQueuedRequest(i) ==
    \E k \in 1..Len(bm.browserQueue) : bm.browserQueue[k] = QueueWrapper(i)

\* C27: when an attempt that held a browser fails and the item goes into
\* its backoff, releaseBrowser is called for that browser in the same step;
\* during the backoff the item holds no browser and has no acquire request
\* queued; it gets a browser again only by the acquire that follows the
\* backoff.
C27_ReleasedBeforeBackoff ==
    [][ \A i \in Indices :
            /\ (Holds(i) /\ tasks'[i].pc = "wait5s") =>
                   /\ pendingReleases'[tasks[i].browserId] =
                          pendingReleases[tasks[i].browserId] + 1
                   /\ tasks'[i].browserId = NoBrowser
            /\ tasks[i].pc = "wait5s" =>
                   /\ tasks[i].browserId = NoBrowser
                   /\ ~HasQueuedRequest(i)
                   /\ tasks'[i].pc \in { "wait5s", "queued", "work" }
                   /\ tasks'[i].pc = "wait5s" => tasks'[i] = tasks[i]
      ]_vars

\* an item is in its backoff after a failed attempt while the release of a
\* browser is still under way
C27_Witness ==
    \E i \in Indices :
        /\ tasks[i].pc = "wait5s"
        /\ tasks[i].retries > 0
        /\ PendingTotal > 0

\* C28: a task leaves the captcha wait by timeout only when the full
\* captcha timeout has passed since the latest reissue of its challenge.
C28_ReissueRestartsDeadline ==
    [][ \A i \in Indices :
            (tasks[i].pc = "captcha" /\ session.waitingForCaptcha
                /\ tasks'[i].pc # "captcha") =>
                    i \in hist.sinceReissue
      ]_vars

\* C29: a browser on the available list carries no challenge: its
\* captchaRequired flag is clear, no consumer is bound to it and it has no
\* entry in captchaLocks.
C29_FreeSessionHasNoChallenge ==
    \A k \in 1..Len(bm.availableBrowsers) :
        LET b == bm.availableBrowsers[k] IN
        /\ ~bm.browsers[b].captchaRequired
        /\ bm.browsers[b].currentConsumer = NoConsumer
        /\ b \notin bm.captchaLocks

\* the completion checker watches a batch of up to MaxTotal numbers
InitChecker ==
    /\ InitServer(0, 0, maxBrowsers, { << >> })
    /\ upload = NoUpload
    /\ api = ApiConstructed
    /\ checker \in { NewChecker(n) : n \in 1..MaxTotal }
    /\ poll = NoPoll
    /\ viewer = NoViewer
    /\ pair = NoPair

NextChecker ==
    \/ CheckerCompletion
    \/ CheckerTick

SpecChecker == InitChecker /\ [][NextChecker]_vars

\* C32: a run of the interval callback at which at least 80% of the queue is
\* completed and more than two minutes have elapsed finishes the batch, and
\* a batch is finished for the reason "force" only at a run of the callback
\* at which at least 80% is completed and more than two minutes have elapsed
C32_ForcedAtEightyPercentAfterTwoMinutes ==
    [][ checker'.elapsedTime # checker.elapsedTime =>
          LET c == checker.completedConsumers
              n == checker.total
              e == checker'.elapsedTime
          IN /\ (c * 10 >= n * 8 /\ e > ForceMinElapsed)
                    => checker'.processingCompleted
             /\ checker'.completionReason = "force"
                    => (c * 10 >= n * 8 /\ e > ForceMinElapsed) ]_vars

\* a batch of which not every item is completed was finished for the reason
\* "force" at the first run of the callback after two minutes
C32_Witness ==
    /\ checker.completionReason = "force"
    /\ checker.completedConsumers < checker.total
    /\ checker.elapsedTime = ForceMinElapsed + TickPeriod

\* the viewer has been constructed and receives the server's events
InitViewer ==
    /\ InitServer(0, 0, maxBrowsers, { << >> })
    /\ upload = NoUpload
    /\ api = ApiConstructed
    /\ checker = NoChecker
    /\ poll = NoPoll
    /\ viewer = NoViewer
    /\ pair = NoPair

NextViewer ==
    \/ \E b \in 1..maxBrowsers, c \in 1..NumItems, match \in BOOLEAN :
           HandleCaptchaRequired(b, c, match)
    \/ \E success \in BOOLEAN, b \in 1..maxBrowsers : HandleCaptchaSubmitted(success, b)
    \/ \E b \in 1..maxBrowsers : CaptchaTimerFires(b)
    \/ HandleCaptchaError

SpecViewer == InitViewer /\ [][NextViewer]_vars

InitPoll ==
    /\ InitServer(0, 0, maxBrowsers, { << >> })
    /\ upload = NoUpload
    /\ api = ApiConstructed
    /\ checker = NoChecker
    /\ poll = NewPoll
    /\ viewer = NoViewer
    /\ pair = NoPair

NextPoll == \E pageState \in PageStates : PollPass(pageState)

SpecPoll == InitPoll /\ [][NextPoll]_vars

\* C33: a call of submitAndGetResults evaluates the page at most
\* maxPollRetries times
C33_AtMostFivePolls == poll.polls <= maxPollRetries

\* the event loop runs every callback that is ready: a step of the run is
\* taken for as long as one is possible
SpecRetriesFair == SpecRetries /\ WF_vars(NextRetries)

\* C34: every call of processConsumer settles
C34_ProcessConsumerTerminates ==
    \A i \in Indices :
        (tasks[i].pc \notin { "unclaimed", "dropped" }) ~> (tasks[i].pc = "done")

\* C35: until the batch is finalized the completed counter equals the number
\* of results recorded for the session
C35_CounterMatchesResults ==
    ~processingCompleted => completedConsumers = Len(session.results)

\* C36: no index taken from the cursor is left without a processConsumer
\* call, and so without a result of its own
C36_EveryIndexProcessed ==
    \A i \in Indices : tasks[i].pc # "dropped"

\* C37: once the status is terminal and the results file is written, no step
\* changes the results of the session or the completed counter
C37_FrozenAfterExport ==
    [][ (Terminal /\ hist.export.written) =>
            /\ session'.results = session.results
            /\ completedConsumers' = completedConsumers ]_vars

C39_NothingInProgressAtTerminal ==
    Terminal => consumersInProgress = {}

\* two sheets of the same numbers, in any order, have been uploaded
InitPair ==
    /\ InitServer(0, 0, maxBrowsers, { << >> })
    /\ upload = NoUpload
    /\ api = ApiConstructed
    /\ checker = NoChecker
    /\ poll = NoPoll
    /\ viewer = NoViewer
    /\ pair \in { [ NoPair EXCEPT !.batch = [ s \in PairSessions |-> NewBatch(q[s]) ] ] :
                    q \in [ PairSessions -> PairQueues ] }

NextPair ==
    \/ \E s \in PairSessions : PairStart(s)
    \/ \E s \in PairSessions, i \in 1..PairItems : PairSettle(s, i)
    \/ PairBrowserAvailable

SpecPair == InitPair /\ [][NextPair]_vars

\* C40: in each of two batches processed at the same time, no index is left
\* without a processConsumer call because its number is in progress in the
\* other batch, and a number whose processConsumer call is running is in
\* consumersInProgress
C40_BatchesIndependent ==
    \A s \in PairSessions :
        \A i \in 1..Len(pair.batch[s].queue) :
            /\ pair.batch[s].items[i] # "dropped"
            /\ pair.batch[s].items[i] = "running"
                   => pair.batch[s].queue[i] \in pair.consumersInProgress

====
